---- MODULE Spec2Model ----
(***************************************************************************)
(* Model of the rectangle union-area engine of mvp-void-shelf:            *)
(* src/area_calculation/calculations.py (sweep over X with a dynamic list *)
(* of Y intervals) and of the fill computation built on it,              *)
(* src/area_calculation/area_calculation.py.  Coordinates are bounded     *)
(* naturals; a rectangle is the tuple <<x1, y1, x2, y2>>, an event is     *)
(* <<x, type, y1, y2>> with type 1 (start) or -1 (end), an interval is    *)
(* <<y1, y2>>.                                                            *)
(***************************************************************************)
EXTENDS Integers, Sequences, FiniteSets, TLC

\* ---------------------------------------------------------------- bounds
\* Lists of up to MaxShort rectangles are drawn from the grid
\* (0..MaxX) x (0..MaxY); longer lists, up to MaxRects rectangles, from the
\* narrower grid (0..MaxXLong) x (0..MaxYLong).
MaxX == 3
MaxY == 3
MaxShort == 2
MaxRects == 3
MaxXLong == 2
MaxYLong == 2
\* The fill computation takes up to MaxBoxes detections and up to MaxShelves
\* shelves, all from the grid (0..MaxFillX) x (0..MaxFillY).
MaxFillX == 2
MaxFillY == 1
MaxBoxes == 2
MaxShelves == 2
\* Intervals inserted into and removed from an interval list on its own have
\* their bounds in 0..MaxInterval.
MaxInterval == 4
\* Concurrent sweeps: NumThreads threads, each on a list of at most
\* MaxThreadRects rectangles with corners in 0..MaxThreadX by 0..MaxThreadY.
NumThreads == 2
MaxThreadRects == 2
MaxThreadX == 1
MaxThreadY == 1
\* A series of calls: union_area on lists of at most MaxCallRects rectangles,
\* the fill computation on at most MaxCallBoxes detections, with corners in
\* 0..MaxCallX by 0..MaxCallY; a series has at most MaxCalls calls.
MaxCalls == 3
MaxCallRects == 2
MaxCallBoxes == 1
MaxCallX == 1
MaxCallY == 1
\* read_fresh_frame is called with max_attempts in 0..MaxAttempts.
MaxAttempts == 3
\* process_camera_stream is called with skip_frames in 0..MaxSkip and followed
\* for MaxReads reads of the camera.
\* start_in_store is followed for MaxIterations iterations of its loop.
MaxIterations == 6
MaxSkip == 3
\* al_save_interval is in 1..MaxSaveInterval seconds; the clock runs for
\* MaxElapsed seconds from a time.time() that is past any interval.
MaxSaveInterval == 3
MaxElapsed == 8
MaxReads == 8

\* ---------------------------------------------------------------- state
VARIABLES
    rectangles,        \* argument of calculate_union_area_sweepline
    events,            \* the sorted event list
    idx,               \* number of events already consumed by the for-loop
    active_intervals,  \* list of active Y intervals
    total_area,        \* accumulated area
    prev_x,            \* <<>> for None, <<x>> once set
    pc,                \* "call" | "loop" | "done"
    result,            \* <<>> until the call returns, then <<value>>
    calc,              \* locals of one calculate_shelf_fill_percentage call
    iset,              \* an interval list under insert / remove, with the last operation
    threads,           \* the locals of each of several concurrent sweeps
    session,           \* a series of engine calls: the first and the latest call
    cam,               \* a Camera object and the stream it reads
    skip,              \* the locals of one process_camera_stream call
    monitor,           \* the loop of ShowPicture.start_in_store
    al                 \* the active-learning saver of ShowPicture

vars == <<rectangles, events, idx, active_intervals, total_area, prev_x, pc, result,
          calc, iset, threads, session, cam, skip, monitor, al>>

\* The variables of the camera pipeline and of a series of calls.
pipeline_vars == <<session, cam, skip, monitor, al>>

\* No series of calls and no camera pipeline.
pipeline_idle ==
    /\ session = <<>>
    /\ cam = <<>>
    /\ skip = <<>>
    /\ monitor = <<>>
    /\ al = <<>>

\* What a run of the sweep alone leaves untouched.
outside_sweep == <<calc, iset, threads, pipeline_vars>>

\* ---------------------------------------------------------------- helpers
Max(a, b) == IF a >= b THEN a ELSE b

\* Well-formed rectangles (x1 <= x2, y1 <= y2) over a bounded grid.
RectIn(mx, my) ==
    {r \in (0..mx) \X (0..my) \X (0..mx) \X (0..my) :
        r[1] <= r[3] /\ r[2] <= r[4]}

Rect == RectIn(MaxX, MaxY)

RectLong == RectIn(MaxXLong, MaxYLong)

RectLists ==
    UNION {[1..n -> Rect] : n \in 0..MaxShort}
        \cup UNION {[1..n -> RectLong] : n \in (MaxShort + 1)..MaxRects}

\* Python tuple comparison a < b on 4-tuples (lexicographic).
TupleLess(a, b) ==
    \E k \in 1..4 : a[k] < b[k] /\ \A j \in 1..(k - 1) : a[j] = b[j]

\* for x1, y1, x2, y2 in rectangles: append start event, append end event
RECURSIVE make_events(_)
make_events(rects) ==
    IF rects = <<>> THEN <<>>
    ELSE LET r == Head(rects) IN
         <<  <<r[1], 1, r[2], r[4]>>, <<r[3], -1, r[2], r[4]>>  >>
            \o make_events(Tail(rects))

\* events.sort(): ascending order of whole tuples.
RECURSIVE insert_event(_, _)
insert_event(s, e) ==
    IF s = <<>> THEN <<e>>
    ELSE IF TupleLess(e, Head(s)) THEN <<e>> \o s
    ELSE <<Head(s)>> \o insert_event(Tail(s), e)

\* A variant that orders events by x alone, keeping input order among ties.
RECURSIVE sort_events_by_x(_)
sort_events_by_x(s) ==
    IF s = <<>> THEN <<>>
    ELSE LET e == s[Len(s)]
             front == sort_events_by_x(SubSeq(s, 1, Len(s) - 1))
             RECURSIVE ins(_)
             ins(t) == IF t = <<>> THEN <<e>>
                       ELSE IF e[1] < Head(t)[1] THEN <<e>> \o t
                       ELSE <<Head(t)>> \o ins(Tail(t))
         IN ins(front)

RECURSIVE sort_events(_)
sort_events(s) ==
    IF s = <<>> THEN <<>>
    ELSE insert_event(sort_events(SubSeq(s, 1, Len(s) - 1)), s[Len(s)])

\* sorted(intervals, key=lambda x: x[0]): stable sort on the lower bound.
RECURSIVE insert_by_lo(_, _)
insert_by_lo(s, e) ==
    IF s = <<>> THEN <<e>>
    ELSE IF e[1] < Head(s)[1] THEN <<e>> \o s
    ELSE <<Head(s)>> \o insert_by_lo(Tail(s), e)

RECURSIVE sorted_by_lo(_)
sorted_by_lo(s) ==
    IF s = <<>> THEN <<>>
    ELSE insert_by_lo(sorted_by_lo(SubSeq(s, 1, Len(s) - 1)), s[Len(s)])

\* A variant of the fold that merges only on a proper overlap (current.lo < last.hi).
RECURSIVE merge_fold_strict(_, _)
merge_fold_strict(merged, rest) ==
    IF rest = <<>> THEN merged
    ELSE LET current == Head(rest)
             last == merged[Len(merged)]
         IN IF current[1] < last[2]
            THEN merge_fold_strict([merged EXCEPT ![Len(merged)] =
                                       <<last[1], Max(last[2], current[2])>>],
                                   Tail(rest))
            ELSE merge_fold_strict(Append(merged, current), Tail(rest))

\* the for-loop of merge_intervals over sorted_intervals[1:]
RECURSIVE merge_fold(_, _)
merge_fold(merged, rest) ==
    IF rest = <<>> THEN merged
    ELSE LET current == Head(rest)
             last == merged[Len(merged)]
         IN IF current[1] <= last[2]
            THEN merge_fold([merged EXCEPT ![Len(merged)] =
                                <<last[1], Max(last[2], current[2])>>],
                            Tail(rest))
            ELSE merge_fold(Append(merged, current), Tail(rest))

\* A variant that sorts but never folds overlapping members together.
merge_intervals_no_merge(intervals) == sorted_by_lo(intervals)

merge_intervals(intervals) ==
    IF intervals = <<>> THEN <<>>
    ELSE LET sorted_intervals == sorted_by_lo(intervals)
         IN merge_fold(<<Head(sorted_intervals)>>, Tail(sorted_intervals))

\* Which branch of the if / elif chain of remove_interval a member (y1, y2)
\* takes; "none" when no condition holds and the member is silently dropped.
remove_branch(y1, y2, y1_remove, y2_remove) ==
    IF y1 >= y1_remove /\ y2 <= y2_remove THEN "covered"
    ELSE IF y2 <= y1_remove \/ y1 >= y2_remove THEN "outside"
    ELSE IF y1 < y1_remove /\ y2 > y2_remove THEN "split"
    ELSE IF y1 < y1_remove /\ y2 > y1_remove THEN "left"
    ELSE IF y1 < y2_remove /\ y2 > y2_remove THEN "right"
    ELSE "none"

\* A variant of the loop without the branch that splits a containing member.
RECURSIVE remove_fold_without_split(_, _, _)
remove_fold_without_split(intervals, y1_remove, y2_remove) ==
    IF intervals = <<>> THEN <<>>
    ELSE LET y1 == Head(intervals)[1]
             y2 == Head(intervals)[2]
             rest == remove_fold_without_split(Tail(intervals), y1_remove, y2_remove)
         IN IF y1 >= y1_remove /\ y2 <= y2_remove THEN rest
            ELSE IF y2 <= y1_remove \/ y1 >= y2_remove THEN <<  <<y1, y2>>  >> \o rest
            ELSE IF y1 < y1_remove /\ y2 > y1_remove THEN <<  <<y1, y1_remove>>  >> \o rest
            ELSE IF y1 < y2_remove /\ y2 > y2_remove THEN <<  <<y2_remove, y2>>  >> \o rest
            ELSE rest

\* A variant of the loop that keeps a member the removed range covers.
RECURSIVE remove_fold_keep_covered(_, _, _)
remove_fold_keep_covered(intervals, y1_remove, y2_remove) ==
    IF intervals = <<>> THEN <<>>
    ELSE LET y1 == Head(intervals)[1]
             y2 == Head(intervals)[2]
             rest == remove_fold_keep_covered(Tail(intervals), y1_remove, y2_remove)
         IN IF y1 >= y1_remove /\ y2 <= y2_remove THEN <<  <<y1, y2>>  >> \o rest
            ELSE IF y2 <= y1_remove \/ y1 >= y2_remove THEN <<  <<y1, y2>>  >> \o rest
            ELSE IF y1 < y1_remove /\ y2 > y2_remove
                 THEN <<  <<y1, y1_remove>>, <<y2_remove, y2>>  >> \o rest
            ELSE IF y1 < y1_remove /\ y2 > y1_remove THEN <<  <<y1, y1_remove>>  >> \o rest
            ELSE IF y1 < y2_remove /\ y2 > y2_remove THEN <<  <<y2_remove, y2>>  >> \o rest
            ELSE rest

\* the for-loop of remove_interval; a member matching no branch is dropped
RECURSIVE remove_fold(_, _, _)
remove_fold(intervals, y1_remove, y2_remove) ==
    IF intervals = <<>> THEN <<>>
    ELSE LET y1 == Head(intervals)[1]
             y2 == Head(intervals)[2]
             rest == remove_fold(Tail(intervals), y1_remove, y2_remove)
         IN IF y1 >= y1_remove /\ y2 <= y2_remove THEN rest
            ELSE IF y2 <= y1_remove \/ y1 >= y2_remove THEN <<  <<y1, y2>>  >> \o rest
            ELSE IF y1 < y1_remove /\ y2 > y2_remove
                 THEN <<  <<y1, y1_remove>>, <<y2_remove, y2>>  >> \o rest
            ELSE IF y1 < y1_remove /\ y2 > y1_remove THEN <<  <<y1, y1_remove>>  >> \o rest
            ELSE IF y1 < y2_remove /\ y2 > y2_remove THEN <<  <<y2_remove, y2>>  >> \o rest
            ELSE rest

\* A variant that returns the loop's result without the final merge.
remove_interval_without_merge(intervals, interval_to_remove) ==
    IF intervals = <<>> THEN <<>>
    ELSE remove_fold(intervals, interval_to_remove[1], interval_to_remove[2])

remove_interval(intervals, interval_to_remove) ==
    IF intervals = <<>> THEN <<>>
    ELSE merge_intervals(remove_fold(intervals, interval_to_remove[1],
                                     interval_to_remove[2]))

RECURSIVE sum_lengths(_)
sum_lengths(s) ==
    IF s = <<>> THEN 0 ELSE (Head(s)[2] - Head(s)[1]) + sum_lengths(Tail(s))

\* A variant that measures each member as hi - lo + 1 (inclusive bounds).
calculate_union_height_plus_one(intervals) ==
    IF intervals = <<>> THEN 0
    ELSE sum_lengths(merge_intervals(intervals)) + Len(merge_intervals(intervals))

calculate_union_height(intervals) ==
    IF intervals = <<>> THEN 0
    ELSE sum_lengths(merge_intervals(intervals))

\* active_intervals.append((y1, y2)); active_intervals = merge_intervals(...)
insert_interval(intervals, interval) == merge_intervals(Append(intervals, interval))

\* A variant that takes the width as prev_x - x.
loop_body_reversed_width(st, ev) ==
    LET x == ev[1]
        area == IF st.prev_x # <<>> /\ x > st.prev_x[1] /\ st.active_intervals # <<>>
                THEN st.total_area
                        + calculate_union_height(st.active_intervals) * (st.prev_x[1] - x)
                ELSE st.total_area
        act == IF ev[2] = 1
               THEN merge_intervals(Append(st.active_intervals, <<ev[3], ev[4]>>))
               ELSE remove_interval(st.active_intervals, <<ev[3], ev[4]>>)
    IN [active_intervals |-> act, total_area |-> area, prev_x |-> <<x>>]

\* A variant that applies the event first and measures the gap afterwards.
loop_body_apply_first(st, ev) ==
    LET act == IF ev[2] = 1
               THEN insert_interval(st.active_intervals, <<ev[3], ev[4]>>)
               ELSE remove_interval(st.active_intervals, <<ev[3], ev[4]>>)
        area == IF st.prev_x # <<>> /\ ev[1] > st.prev_x[1] /\ act # <<>>
                THEN st.total_area + calculate_union_height(act) * (ev[1] - st.prev_x[1])
                ELSE st.total_area
    IN [active_intervals |-> act, total_area |-> area, prev_x |-> <<ev[1]>>]

\* One iteration of "for x, event_type, y1, y2 in events" on the loop state
\* st = [active_intervals, total_area, prev_x].
loop_body(st, ev) ==
    LET x == ev[1]
        event_type == ev[2]
        y1 == ev[3]
        y2 == ev[4]
        area == IF st.prev_x # <<>> /\ x > st.prev_x[1] /\ st.active_intervals # <<>>
                THEN st.total_area
                        + calculate_union_height(st.active_intervals) * (x - st.prev_x[1])
                ELSE st.total_area
        act == IF event_type = 1
               THEN insert_interval(st.active_intervals, <<y1, y2>>)
               ELSE remove_interval(st.active_intervals, <<y1, y2>>)
    IN [active_intervals |-> act, total_area |-> area, prev_x |-> <<x>>]

loop_start == [active_intervals |-> <<>>, total_area |-> 0, prev_x |-> <<>>]

RECURSIVE run_loop(_, _)
run_loop(st, evs) ==
    IF evs = <<>> THEN st ELSE run_loop(loop_body(st, Head(evs)), Tail(evs))

\* The whole function, as one value.
calculate_union_area_sweepline(rects) ==
    IF rects = <<>> THEN 0
    ELSE run_loop(loop_start, sort_events(make_events(rects))).total_area

\* ---------------------------------------------------------------- fill
\* Rectangles of detections and shelves.
FillRect == RectIn(MaxFillX, MaxFillY)

BoxLists == UNION {[1..n -> FillRect] : n \in 0..MaxBoxes}

ShelfLists == UNION {[1..n -> FillRect] : n \in 0..MaxShelves}

\* (x2 - x1) * (y2 - y1)
rect_area(r) == (r[3] - r[1]) * (r[4] - r[2])

\* A variant of the containment test with strict comparisons.
RECURSIVE is_rectangle_inside_shelves_strict(_, _)
is_rectangle_inside_shelves_strict(rect, shelves) ==
    IF shelves = <<>> THEN FALSE
    ELSE LET sh == Head(shelves)
         IN IF 2 * sh[1] < rect[1] + rect[3] /\ rect[1] + rect[3] < 2 * sh[3]
               /\ 2 * sh[2] < rect[2] + rect[4] /\ rect[2] + rect[4] < 2 * sh[4]
            THEN TRUE
            ELSE is_rectangle_inside_shelves_strict(rect, Tail(shelves))

\* for sx1, sy1, sx2, sy2 in shelves: return True at the first shelf holding
\* the centre; return False after the loop.  The centre ((x1+x2)/2, (y1+y2)/2)
\* is kept exact by comparing x1+x2 with 2*sx1 and 2*sx2 (same for y).
RECURSIVE is_rectangle_inside_shelves(_, _)
is_rectangle_inside_shelves(rect, shelves) ==
    IF shelves = <<>> THEN FALSE
    ELSE LET sh == Head(shelves)
         IN IF 2 * sh[1] <= rect[1] + rect[3] /\ rect[1] + rect[3] <= 2 * sh[3]
               /\ 2 * sh[2] <= rect[2] + rect[4] /\ rect[2] + rect[4] <= 2 * sh[4]
            THEN TRUE
            ELSE is_rectangle_inside_shelves(rect, Tail(shelves))

\* A variant that measures the shelves by their union area.
sum_areas_as_union(shelves) == calculate_union_area_sweepline(shelves)

\* sum((x2 - x1) * (y2 - y1) for x1, y1, x2, y2 in shelf_coordinates)
RECURSIVE sum_areas(_)
sum_areas(shelves) ==
    IF shelves = <<>> THEN 0 ELSE rect_area(Head(shelves)) + sum_areas(Tail(shelves))

RECURSIVE GCD(_, _)
GCD(a, b) == IF b = 0 THEN a ELSE GCD(b, a % b)

\* The exact quotient n / d (d > 0, n >= 0) as <<numerator, denominator>> in
\* lowest terms; floating-point rounding is not modelled.
Quotient(n, d) == <<n \div GCD(n, d), d \div GCD(n, d)>>

\* A variant that returns the plain ratio, not the percentage.
fill_ratio_of(total_objects_area, shelf_total_area) ==
    IF shelf_total_area > 0
    THEN Quotient(total_objects_area, shelf_total_area)
    ELSE <<0, 1>>

\* if shelf_total_area > 0: (total_objects_area / shelf_total_area) * 100
\* else: 0.0
fill_percentage_of(total_objects_area, shelf_total_area) ==
    IF shelf_total_area > 0
    THEN Quotient(total_objects_area * 100, shelf_total_area)
    ELSE <<0, 1>>

\* The locals of calculate_shelf_fill_percentage before its loop over the
\* detected boxes.
calc_start(boxes, shelf_coordinates, filter_objects_in_shelves) ==
    [pc |-> "boxes",
     boxes |-> boxes,
     shelf_coordinates |-> shelf_coordinates,
     filter_objects_in_shelves |-> filter_objects_in_shelves,
     i |-> 0,
     tested |-> <<>>,
     objects_rectangles |-> <<>>,
     objects_info |-> <<>>,
     swept |-> <<>>,
     report |-> <<>>]

\* No fill computation in progress.
calc_idle == [calc_start(<<>>, <<>>, FALSE) EXCEPT !.pc = "idle"]

\* A variant of the filter test that also filters against an empty shelf list.
filter_test_without_shelf_guard(c) ==
    IF c.filter_objects_in_shelves
    THEN <<c.boxes[c.i + 1],
           is_rectangle_inside_shelves(c.boxes[c.i + 1], c.shelf_coordinates)>>
    ELSE <<>>

\* The filter test of one iteration: <<>> when the filter is off or there is
\* no shelf, else <<rect, the value is_rectangle_inside_shelves returned>>.
filter_test(c) ==
    IF c.filter_objects_in_shelves /\ c.shelf_coordinates # <<>>
    THEN <<c.boxes[c.i + 1],
           is_rectangle_inside_shelves(c.boxes[c.i + 1], c.shelf_coordinates)>>
    ELSE <<>>

\* A variant that numbers the entries by the index of enumerate().
box_step_enumerate_id(c) ==
    LET rect == c.boxes[c.i + 1]
        test == filter_test(c)
    IN IF test # <<>> /\ ~test[2]
       THEN [c EXCEPT !.i = c.i + 1, !.tested = test]
       ELSE [c EXCEPT !.i = c.i + 1,
                      !.tested = test,
                      !.objects_rectangles = Append(c.objects_rectangles, rect),
                      !.objects_info =
                          Append(c.objects_info,
                                 [id |-> c.i + 1,
                                  coordinates |-> rect,
                                  area |-> rect_area(rect)])]

\* One iteration of "for i, box in enumerate(result.boxes)".
box_step(c) ==
    LET rect == c.boxes[c.i + 1]
        test == filter_test(c)
    IN IF test # <<>> /\ ~test[2]
       THEN [c EXCEPT !.i = c.i + 1, !.tested = test]
       ELSE [c EXCEPT !.i = c.i + 1,
                      !.tested = test,
                      !.objects_rectangles = Append(c.objects_rectangles, rect),
                      !.objects_info =
                          Append(c.objects_info,
                                 [id |-> Len(c.objects_rectangles) + 1,
                                  coordinates |-> rect,
                                  area |-> rect_area(rect)])]

\* The code after the loop: both areas, the percentage and the returned dict.
make_report(c) ==
    LET total_objects_area == calculate_union_area_sweepline(c.objects_rectangles)
        shelf_total_area == sum_areas(c.shelf_coordinates)
    IN [total_objects_area |-> total_objects_area,
        shelf_total_area |-> shelf_total_area,
        fill_percentage |-> fill_percentage_of(total_objects_area, shelf_total_area),
        num_objects |-> Len(c.objects_rectangles),
        objects_info |-> c.objects_info]

\* ---------------------------------------------------------------- intervals
\* An empty interval list on which nothing has been done yet.
iset_idle == [intervals |-> <<>>, before |-> <<>>, op |-> <<>>]

\* Well-formed intervals (lo <= hi).
Intervals == {v \in (0..MaxInterval) \X (0..MaxInterval) : v[1] <= v[2]}

\* ---------------------------------------------------------------- threads
ThreadRectLists ==
    UNION {[1..n -> RectIn(MaxThreadX, MaxThreadY)] : n \in 0..MaxThreadRects}

\* The locals of a call of calculate_union_area_sweepline that has not started.
thread_start(rects) ==
    [rectangles |-> rects, events |-> <<>>, idx |-> 0,
     active_intervals |-> <<>>, total_area |-> 0, prev_x |-> <<>>,
     pc |-> "call", result |-> <<>>]

\* The loop variables of thread t after one more iteration of its for-loop.
thread_loop_body(ths, t) ==
    loop_body([active_intervals |-> ths[t].active_intervals,
               total_area |-> ths[t].total_area,
               prev_x |-> ths[t].prev_x], ths[t].events[ths[t].idx + 1])

\* A variant in which active_intervals is one module-level list that every
\* thread reads and writes.
thread_after_event_shared_intervals(ths, t) ==
    [u \in DOMAIN ths |->
        IF u = t
        THEN [ths[t] EXCEPT !.active_intervals = thread_loop_body(ths, t).active_intervals,
                            !.total_area = thread_loop_body(ths, t).total_area,
                            !.prev_x = thread_loop_body(ths, t).prev_x,
                            !.idx = ths[t].idx + 1]
        ELSE [ths[u] EXCEPT !.active_intervals = thread_loop_body(ths, t).active_intervals]]

\* One iteration of the for-loop in thread t: active_intervals, total_area,
\* prev_x and the loop position are locals of t's call; no other thread's
\* locals are read or written.
thread_after_event(ths, t) ==
    [ths EXCEPT ![t] =
        [ths[t] EXCEPT !.active_intervals = thread_loop_body(ths, t).active_intervals,
                       !.total_area = thread_loop_body(ths, t).total_area,
                       !.prev_x = thread_loop_body(ths, t).prev_x,
                       !.idx = ths[t].idx + 1]]

\* No concurrent sweep.
threads_idle == <<>>

\* ---------------------------------------------------------------- machine
Init ==
    /\ rectangles \in RectLists
    /\ events = <<>>
    /\ idx = 0
    /\ active_intervals = <<>>
    /\ total_area = 0
    /\ prev_x = <<>>
    /\ pc = "call"
    /\ result = <<>>
    /\ calc = calc_idle
    /\ iset = iset_idle
    /\ threads = threads_idle
    /\ pipeline_idle

\* A variant of the entry that lacks the "if not rectangles" guard.
ReturnEmptyFallThrough ==
    /\ pc = "call"
    /\ rectangles = <<>>
    /\ pc' = "loop"
    /\ UNCHANGED <<rectangles, events, idx, active_intervals, total_area, prev_x, result>>
    /\ UNCHANGED outside_sweep

\* if not rectangles: return 0.0
ReturnEmpty ==
    /\ pc = "call"
    /\ rectangles = <<>>
    /\ result' = <<0>>
    /\ pc' = "done"
    /\ UNCHANGED <<rectangles, events, idx, active_intervals, total_area, prev_x>>
    /\ UNCHANGED outside_sweep

\* build the events, sort them, initialise the loop variables
BuildEvents ==
    /\ pc = "call"
    /\ rectangles # <<>>
    /\ events' = sort_events(make_events(rectangles))
    /\ active_intervals' = loop_start.active_intervals
    /\ total_area' = loop_start.total_area
    /\ prev_x' = loop_start.prev_x
    /\ idx' = 0
    /\ pc' = "loop"
    /\ UNCHANGED <<rectangles, result>>
    /\ UNCHANGED outside_sweep

\* one iteration of the for-loop
ProcessEvent ==
    /\ pc = "loop"
    /\ idx < Len(events)
    /\ LET st == loop_body([active_intervals |-> active_intervals,
                            total_area |-> total_area,
                            prev_x |-> prev_x], events[idx + 1])
       IN /\ active_intervals' = st.active_intervals
          /\ total_area' = st.total_area
          /\ prev_x' = st.prev_x
    /\ idx' = idx + 1
    /\ UNCHANGED <<rectangles, events, pc, result>>
    /\ UNCHANGED outside_sweep

\* return total_area
ReturnArea ==
    /\ pc = "loop"
    /\ idx = Len(events)
    /\ result' = <<total_area>>
    /\ pc' = "done"
    /\ UNCHANGED <<rectangles, events, idx, active_intervals, total_area, prev_x>>
    /\ UNCHANGED outside_sweep

Next ==
    \/ ReturnEmpty
    \/ BuildEvents
    \/ ProcessEvent
    \/ ReturnArea

Spec == Init /\ [][Next]_vars

\* ---------------------------------------------------------------- fill machine
\* The sweep variables while no stand-alone sweep runs.
sweep_idle ==
    /\ rectangles = <<>>
    /\ events = <<>>
    /\ idx = 0
    /\ active_intervals = <<>>
    /\ total_area = 0
    /\ prev_x = <<>>
    /\ pc = "idle"
    /\ result = <<>>

sweep_vars == <<rectangles, events, idx, active_intervals, total_area, prev_x, pc, result>>

\* What a fill computation leaves untouched.
outside_fill == <<sweep_vars, iset, threads, pipeline_vars>>

InitFill ==
    /\ sweep_idle
    /\ iset = iset_idle
    /\ threads = threads_idle
    /\ pipeline_idle
    /\ \E boxes \in BoxLists, shelf_coordinates \in ShelfLists,
          filter_objects_in_shelves \in BOOLEAN :
            calc = calc_start(boxes, shelf_coordinates, filter_objects_in_shelves)

\* one iteration of the loop over the boxes
ProcessBox ==
    /\ calc.pc = "boxes"
    /\ calc.i < Len(calc.boxes)
    /\ calc' = box_step(calc)
    /\ UNCHANGED outside_fill

\* the sweep over the kept rectangles, the shelf area, the percentage, return
ReturnReport ==
    /\ calc.pc = "boxes"
    /\ calc.i = Len(calc.boxes)
    /\ calc' = [calc EXCEPT !.pc = "done",
                            !.swept = calc.objects_rectangles,
                            !.report = <<make_report(calc)>>]
    /\ UNCHANGED outside_fill

NextFill ==
    \/ ProcessBox
    \/ ReturnReport

SpecFill == InitFill /\ [][NextFill]_vars

\* ---------------------------------------------------------------- interval machine
\* What operations on a lone interval list leave untouched.
outside_intervals == <<sweep_vars, calc, threads, pipeline_vars>>

InitIntervals ==
    /\ sweep_idle
    /\ calc = calc_idle
    /\ threads = threads_idle
    /\ iset = iset_idle
    /\ pipeline_idle

\* the start-event branch of the sweep, on any well-formed interval
InsertInterval ==
    /\ \E v \in Intervals :
          iset' = [intervals |-> insert_interval(iset.intervals, v),
                   before |-> iset.intervals,
                   op |-> <<"insert", v>>]
    /\ UNCHANGED outside_intervals

\* the end-event branch of the sweep, on any well-formed interval
RemoveInterval ==
    /\ \E v \in Intervals :
          iset' = [intervals |-> remove_interval(iset.intervals, v),
                   before |-> iset.intervals,
                   op |-> <<"remove", v>>]
    /\ UNCHANGED outside_intervals

NextIntervals ==
    \/ InsertInterval
    \/ RemoveInterval

SpecIntervals == InitIntervals /\ [][NextIntervals]_vars

\* ---------------------------------------------------------------- concurrent machine
\* What a sweep running in a thread leaves untouched.
outside_threads == <<sweep_vars, calc, iset, pipeline_vars>>

\* Each thread is about to call the sweep on its own list.
InitConcurrent ==
    /\ sweep_idle
    /\ calc = calc_idle
    /\ iset = iset_idle
    /\ pipeline_idle
    /\ threads \in [1..NumThreads -> {thread_start(r) : r \in ThreadRectLists}]

\* if not rectangles: return 0.0, in some thread
ThreadReturnEmpty ==
    /\ \E t \in DOMAIN threads :
          /\ threads[t].pc = "call"
          /\ threads[t].rectangles = <<>>
          /\ threads' = [threads EXCEPT ![t] = [@ EXCEPT !.result = <<0>>, !.pc = "done"]]
    /\ UNCHANGED outside_threads

\* build the events, sort them, initialise the loop variables, in some thread
ThreadBuildEvents ==
    /\ \E t \in DOMAIN threads :
          /\ threads[t].pc = "call"
          /\ threads[t].rectangles # <<>>
          /\ threads' = [threads EXCEPT ![t] =
                [@ EXCEPT !.events = sort_events(make_events(threads[t].rectangles)),
                          !.active_intervals = loop_start.active_intervals,
                          !.total_area = loop_start.total_area,
                          !.prev_x = loop_start.prev_x,
                          !.idx = 0,
                          !.pc = "loop"]]
    /\ UNCHANGED outside_threads

\* one iteration of the for-loop, in some thread
ThreadProcessEvent ==
    /\ \E t \in DOMAIN threads :
          /\ threads[t].pc = "loop"
          /\ threads[t].idx < Len(threads[t].events)
          /\ threads' = thread_after_event(threads, t)
    /\ UNCHANGED outside_threads

\* return total_area, in some thread
ThreadReturnArea ==
    /\ \E t \in DOMAIN threads :
          /\ threads[t].pc = "loop"
          /\ threads[t].idx = Len(threads[t].events)
          /\ threads' = [threads EXCEPT ![t] =
                [@ EXCEPT !.result = <<threads[t].total_area>>, !.pc = "done"]]
    /\ UNCHANGED outside_threads

NextConcurrent ==
    \/ ThreadReturnEmpty
    \/ ThreadBuildEvents
    \/ ThreadProcessEvent
    \/ ThreadReturnArea

SpecConcurrent == InitConcurrent /\ [][NextConcurrent]_vars

\* ---------------------------------------------------------------- series of calls
CallRectLists ==
    UNION {[1..n -> RectIn(MaxCallX, MaxCallY)] : n \in 0..MaxCallRects}

CallBoxLists ==
    UNION {[1..n -> RectIn(MaxCallX, MaxCallY)] : n \in 0..MaxCallBoxes}

\* No shelf, or one shelf over the whole grid.
CallShelfLists == {<<>>, <<  <<0, 0, MaxCallX, MaxCallY>>  >>}

\* A variant in which active_intervals is a module-level list that is not
\* reset at the start of a call.
sweep_call_keeps_intervals(leftover, rects) ==
    IF rects = <<>>
    THEN [result |-> 0, leftover |-> leftover, args_after |-> <<rects>>]
    ELSE LET st == run_loop([loop_start EXCEPT
                                !.active_intervals = leftover.active_intervals],
                            sort_events(make_events(rects)))
         IN [result |-> st.total_area, leftover |-> st, args_after |-> <<rects>>]

\* One call of calculate_union_area_sweepline after earlier calls: leftover
\* is what the previous call's locals held when it returned.  events,
\* active_intervals, total_area and prev_x are created anew; the argument
\* list is only iterated over.
sweep_call(leftover, rects) ==
    IF rects = <<>>
    THEN [result |-> 0, leftover |-> leftover, args_after |-> <<rects>>]
    ELSE LET st == run_loop(loop_start, sort_events(make_events(rects)))
         IN [result |-> st.total_area, leftover |-> st, args_after |-> <<rects>>]

\* the for-loop of calculate_shelf_fill_percentage, run to its end
RECURSIVE run_boxes(_)
run_boxes(c) == IF c.i = Len(c.boxes) THEN c ELSE run_boxes(box_step(c))

\* One call of calculate_shelf_fill_percentage after earlier calls, for fixed
\* detections; shelf_coordinates is only read.
fill_call(leftover, boxes, shelf_coordinates, filter_objects_in_shelves) ==
    LET c == run_boxes(calc_start(boxes, shelf_coordinates, filter_objects_in_shelves))
        sw == sweep_call(leftover, c.objects_rectangles)
    IN [result |-> [make_report(c) EXCEPT
                       !.total_objects_area = sw.result,
                       !.fill_percentage =
                           fill_percentage_of(sw.result, sum_areas(shelf_coordinates))],
        leftover |-> sw.leftover,
        args_after |-> <<boxes, shelf_coordinates, filter_objects_in_shelves>>]

\* The session after a call of the given kind on args that returned out.
after_call(ses, kind, args, out) ==
    LET call == [kind |-> kind, args |-> args, result |-> out.result,
                 args_after |-> out.args_after]
    IN [first |-> IF ses.first = <<>> THEN <<call>> ELSE ses.first,
        latest |-> <<call>>,
        calls |-> ses.calls + 1,
        leftover |-> out.leftover]

\* What a series of calls leaves untouched.
outside_session == <<sweep_vars, calc, iset, threads, cam, skip, monitor, al>>

\* No call has been made.
InitCalls ==
    /\ sweep_idle
    /\ calc = calc_idle
    /\ iset = iset_idle
    /\ threads = threads_idle
    /\ cam = <<>>
    /\ skip = <<>>
    /\ monitor = <<>>
    /\ al = <<>>
    /\ session = [first |-> <<>>, latest |-> <<>>, calls |-> 0, leftover |-> loop_start]

\* a call of calculate_union_area_sweepline
CallUnionArea ==
    /\ session.calls < MaxCalls
    /\ \E rects \in CallRectLists :
          session' = after_call(session, "union_area", <<rects>>,
                                sweep_call(session.leftover, rects))
    /\ UNCHANGED outside_session

\* a call of calculate_shelf_fill_percentage
CallFill ==
    /\ session.calls < MaxCalls
    /\ \E boxes \in CallBoxLists, shelves \in CallShelfLists, flt \in BOOLEAN :
          session' = after_call(session, "fill", <<boxes, shelves, flt>>,
                                fill_call(session.leftover, boxes, shelves, flt))
    /\ UNCHANGED outside_session

NextCalls ==
    \/ CallUnionArea
    \/ CallFill

SpecCalls == InitCalls /\ [][NextCalls]_vars

\* ---------------------------------------------------------------- camera
\* cv2.VideoCapture(url): the capture is opened iff the stream is available;
\* alive tells that the connection it holds has not been cut since.
new_capture(stream_up) == [opened |-> stream_up, alive |-> stream_up]

\* A variant of _connect that opens a new capture without releasing the old one.
connect_without_release(c) ==
    [c EXCEPT !.cap = new_capture(c.stream),
              !.open_captures = c.open_captures + (IF c.stream THEN 1 ELSE 0),
              !.connects = c.connects + 1]

\* Camera._connect: release the previous capture, then open a new one.
\* open_captures counts the opened captures that were not released.
connect(c) ==
    [c EXCEPT !.cap = new_capture(c.stream),
              !.open_captures = c.open_captures - (IF c.cap.opened THEN 1 ELSE 0)
                                    + (IF c.stream THEN 1 ELSE 0),
              !.connects = c.connects + 1]

\* cap.read(): ret is True iff the capture is opened, its connection is alive
\* and the stream delivers.
read_ok(c) == c.cap.opened /\ c.cap.alive /\ c.stream

\* The camera after the constructor: one _connect from cap = None.
camera_start(stream_up) ==
    [stream |-> stream_up,
     cap |-> new_capture(stream_up),
     open_captures |-> IF stream_up THEN 1 ELSE 0,
     connects |-> 0,
     pc |-> "idle", attempt |-> 0, max_attempts |-> 0,
     ret |-> <<>>,
     last |-> [op |-> "init", open |-> FALSE, ok |-> FALSE, passed |-> FALSE]]

\* Camera.read_frame; connects counts the _connect calls of this call.
read_frame(c) ==
    IF ~c.cap.opened
    THEN [connect([c EXCEPT !.connects = 0]) EXCEPT
             !.ret = <<"None">>,
             !.last = [op |-> "read_frame", open |-> FALSE, ok |-> FALSE, passed |-> FALSE]]
    ELSE IF ~read_ok(c)
    THEN [connect([c EXCEPT !.connects = 0]) EXCEPT
             !.ret = <<"None">>,
             !.last = [op |-> "read_frame", open |-> TRUE, ok |-> FALSE, passed |-> FALSE]]
    ELSE [c EXCEPT !.connects = 0,
                   !.ret = <<"frame">>,
                   !.last = [op |-> "read_frame", open |-> TRUE, ok |-> TRUE, passed |-> FALSE]]

\* A variant of the attempt that returns any frame that was read, broken or not.
fresh_attempt_no_frame_check(c, passes) ==
    LET c0 == [c EXCEPT !.connects = 0]
        c1 == IF ~c0.cap.opened THEN connect(c0) ELSE c0
    IN IF ~c1.cap.opened
       THEN [c1 EXCEPT !.attempt = c.attempt + 1,
                       !.last = [op |-> "attempt", open |-> FALSE, ok |-> FALSE,
                                 passed |-> FALSE]]
       ELSE IF read_ok(c1)
       THEN [c1 EXCEPT !.pc = "idle",
                       !.ret = <<"frame">>,
                       !.last = [op |-> "attempt", open |-> TRUE, ok |-> TRUE,
                                 passed |-> passes]]
       ELSE [connect(c1) EXCEPT
                !.attempt = c.attempt + 1,
                !.last = [op |-> "attempt", open |-> TRUE, ok |-> FALSE,
                          passed |-> FALSE]]

\* One pass of "for attempt in range(max_attempts)" of read_fresh_frame;
\* passes is the outcome of the broken-frame check np.sum(bottom_part) > 1000.
\* The grab() loop discards buffered frames and changes nothing modelled here.
fresh_attempt(c, passes) ==
    LET c0 == [c EXCEPT !.connects = 0]
        c1 == IF ~c0.cap.opened THEN connect(c0) ELSE c0
    IN IF ~c1.cap.opened
       THEN [c1 EXCEPT !.attempt = c.attempt + 1,
                       !.last = [op |-> "attempt", open |-> FALSE, ok |-> FALSE,
                                 passed |-> FALSE]]
       ELSE IF read_ok(c1) /\ passes
       THEN [c1 EXCEPT !.pc = "idle",
                       !.ret = <<"frame">>,
                       !.last = [op |-> "attempt", open |-> TRUE, ok |-> TRUE,
                                 passed |-> TRUE]]
       ELSE [connect(c1) EXCEPT
                !.attempt = c.attempt + 1,
                !.last = [op |-> "attempt", open |-> TRUE, ok |-> read_ok(c1),
                          passed |-> FALSE]]

\* ---------------------------------------------------------------- camera machine
\* What the camera leaves untouched.
outside_camera == <<sweep_vars, calc, iset, threads, session, skip, monitor, al>>

\* The state after Camera(ip_camera=...), the stream being up or down.
InitCamera ==
    /\ sweep_idle
    /\ calc = calc_idle
    /\ iset = iset_idle
    /\ threads = threads_idle
    /\ session = <<>>
    /\ skip = <<>>
    /\ monitor = <<>>
    /\ al = <<>>
    /\ \E stream_up \in BOOLEAN : cam = camera_start(stream_up)

\* The stream goes down (cutting the connection of the current capture) or
\* comes back.
StreamChange ==
    /\ cam' = IF cam.stream
              THEN [cam EXCEPT !.stream = FALSE, !.cap.alive = FALSE]
              ELSE [cam EXCEPT !.stream = TRUE]
    /\ UNCHANGED outside_camera

\* a call of Camera.read_frame
ReadFrame ==
    /\ cam.pc = "idle"
    /\ cam' = read_frame(cam)
    /\ UNCHANGED outside_camera

\* entry of Camera.read_fresh_frame(max_attempts)
ReadFreshFrame ==
    /\ cam.pc = "idle"
    /\ \E max_attempts \in 0..MaxAttempts :
          cam' = [cam EXCEPT !.pc = "fresh", !.attempt = 0,
                             !.max_attempts = max_attempts,
                             !.ret = <<>>,
                             !.last = [op |-> "read_fresh_frame", open |-> FALSE,
                                       ok |-> FALSE, passed |-> FALSE]]
    /\ UNCHANGED outside_camera

\* one pass of the for-loop of read_fresh_frame
FreshAttempt ==
    /\ cam.pc = "fresh"
    /\ cam.attempt < cam.max_attempts
    /\ \E passes \in BOOLEAN : cam' = fresh_attempt(cam, passes)
    /\ UNCHANGED outside_camera

\* the for-loop of read_fresh_frame is exhausted: return None
FreshGiveUp ==
    /\ cam.pc = "fresh"
    /\ cam.attempt = cam.max_attempts
    /\ cam' = [cam EXCEPT !.pc = "idle", !.ret = <<"None">>,
                          !.last = [op |-> "give_up", open |-> FALSE, ok |-> FALSE,
                                    passed |-> FALSE]]
    /\ UNCHANGED outside_camera

\* Camera.release: if self.cap: self.cap.release()
Release ==
    /\ cam.pc = "idle"
    /\ cam' = [cam EXCEPT !.cap = [opened |-> FALSE, alive |-> FALSE],
                          !.open_captures =
                              cam.open_captures - (IF cam.cap.opened THEN 1 ELSE 0),
                          !.last = [op |-> "release", open |-> FALSE, ok |-> FALSE,
                                    passed |-> FALSE]]
    /\ UNCHANGED outside_camera

NextCamera ==
    \/ StreamChange
    \/ ReadFrame
    \/ ReadFreshFrame
    \/ FreshAttempt
    \/ FreshGiveUp
    \/ Release

SpecCamera == InitCamera /\ [][NextCamera]_vars

\* read_fresh_frame runs on its own once called: its loop is not held up
\* forever (time.sleep returns).
SpecCameraFair == SpecCamera /\ WF_vars(FreshAttempt) /\ WF_vars(FreshGiveUp)

\* ---------------------------------------------------------------- frame skipping
\* A variant of the skip test that takes the count modulo skip_frames.
should_skip_modulo_skip_frames(skip_frames, frame_count) ==
    skip_frames > 0 /\ frame_count % skip_frames # 0

\* if skip_frames > 0 and frame_count % (skip_frames + 1) != 0
should_skip(skip_frames, frame_count) ==
    skip_frames > 0 /\ frame_count % (skip_frames + 1) # 0

\* The locals of process_camera_stream at its entry; log records what became
\* of each frame read from the camera.
skip_start(skip_frames) ==
    [skip_frames |-> skip_frames, frame_count |-> 0, log |-> <<>>]

\* What the frame-skipping loop leaves untouched.
outside_skip == <<sweep_vars, calc, iset, threads, session, cam, monitor, al>>

InitSkip ==
    /\ sweep_idle
    /\ calc = calc_idle
    /\ iset = iset_idle
    /\ threads = threads_idle
    /\ session = <<>>
    /\ cam = <<>>
    /\ monitor = <<>>
    /\ al = <<>>
    /\ \E skip_frames \in 0..MaxSkip : skip = skip_start(skip_frames)

\* frame is None: continue
StreamNoFrame ==
    /\ Len(skip.log) < MaxReads
    /\ skip' = [skip EXCEPT !.log = Append(skip.log, "none")]
    /\ UNCHANGED outside_skip

\* a frame was read and the skip test holds: frame_count += 1; continue
StreamSkipFrame ==
    /\ Len(skip.log) < MaxReads
    /\ should_skip(skip.skip_frames, skip.frame_count)
    /\ skip' = [skip EXCEPT !.frame_count = skip.frame_count + 1,
                            !.log = Append(skip.log, "skipped")]
    /\ UNCHANGED outside_skip

\* a frame was read and the skip test fails: the frame is processed, the
\* callback called, frame_count += 1, and (frame, results) yielded
StreamProcessFrame ==
    /\ Len(skip.log) < MaxReads
    /\ ~should_skip(skip.skip_frames, skip.frame_count)
    /\ skip' = [skip EXCEPT !.frame_count = skip.frame_count + 1,
                            !.log = Append(skip.log, "processed")]
    /\ UNCHANGED outside_skip

NextSkip ==
    \/ StreamNoFrame
    \/ StreamSkipFrame
    \/ StreamProcessFrame

SpecSkip == InitSkip /\ [][NextSkip]_vars

\* ---------------------------------------------------------------- monitoring loop
\* start_in_store at the top of its first iteration.  posts counts the POST
\* requests made, waits the time.sleep(time_interval) calls that returned.
monitor_start ==
    [pc |-> "loop", iterations |-> 0, posts |-> 0, waits |-> 0,
     released |-> FALSE, propagated |-> FALSE, last |-> "none"]

\* A variant in which an exception in an iteration is not caught inside the
\* loop: the loop is left through the finally block.
iteration_failed_leaves_loop(m, outcome) ==
    [m EXCEPT !.iterations = m.iterations + 1,
              !.pc = "left",
              !.released = TRUE,
              !.propagated = TRUE,
              !.last = outcome]

\* An iteration that sends nothing: print, time.sleep(time_interval), then
\* continue (or fall to the end of the except block).
iteration_failed(m, outcome) ==
    [m EXCEPT !.iterations = m.iterations + 1,
              !.waits = m.waits + 1,
              !.last = outcome]

\* An iteration that reaches requests.post: whatever the response (200,
\* another status, RequestException) it prints, sleeps and goes on.
iteration_posted(m, outcome) ==
    [m EXCEPT !.iterations = m.iterations + 1,
              !.posts = m.posts + 1,
              !.waits = m.waits + 1,
              !.last = outcome]

\* The loop is left: break or a propagating exception, then finally:
\* camera.release().
loop_left(m, propagates) ==
    [m EXCEPT !.pc = "left",
              !.released = TRUE,
              !.propagated = propagates,
              !.last = "KeyboardInterrupt"]

\* What the monitoring loop leaves untouched.
outside_monitor == <<sweep_vars, calc, iset, threads, session, cam, skip, al>>

InitMonitor ==
    /\ sweep_idle
    /\ calc = calc_idle
    /\ iset = iset_idle
    /\ threads = threads_idle
    /\ session = <<>>
    /\ cam = <<>>
    /\ skip = <<>>
    /\ al = <<>>
    /\ monitor = monitor_start

\* read_fresh_frame returned None: self.model(None) / image.shape raises in
\* calculate_shelf_fill_percentage and the except Exception block runs.  (The
\* "frame is None or results is None" branch behaves the same.)
IterationNoFrame ==
    /\ monitor.pc = "loop"
    /\ monitor.iterations < MaxIterations
    /\ monitor' = iteration_failed(monitor, "no frame")
    /\ UNCHANGED outside_monitor

\* cv2.imencode returned success = False
IterationEncodeFailed ==
    /\ monitor.pc = "loop"
    /\ monitor.iterations < MaxIterations
    /\ monitor' = iteration_failed(monitor, "encode failed")
    /\ UNCHANGED outside_monitor

\* requests.post answered, with status 200 or another, or raised RequestException
IterationPosted ==
    /\ monitor.pc = "loop"
    /\ monitor.iterations < MaxIterations
    /\ \E outcome \in {"200", "non-200", "request error"} :
          monitor' = iteration_posted(monitor, outcome)
    /\ UNCHANGED outside_monitor

\* any other exception raised inside the iteration
IterationException ==
    /\ monitor.pc = "loop"
    /\ monitor.iterations < MaxIterations
    /\ monitor' = iteration_failed(monitor, "exception")
    /\ UNCHANGED outside_monitor

\* KeyboardInterrupt inside the inner try block: except KeyboardInterrupt: break
InterruptCaught ==
    /\ monitor.pc = "loop"
    /\ monitor' = loop_left(monitor, FALSE)
    /\ UNCHANGED outside_monitor

\* an iteration raises an exception and KeyboardInterrupt arrives during the
\* sleep of the except Exception block: that sleep is outside the inner try
\* body, so the interrupt propagates through the finally block
InterruptInHandler ==
    /\ monitor.pc = "loop"
    /\ monitor.iterations < MaxIterations
    /\ monitor' = [loop_left(monitor, TRUE) EXCEPT !.iterations = monitor.iterations + 1]
    /\ UNCHANGED outside_monitor

NextMonitor ==
    \/ IterationNoFrame
    \/ IterationEncodeFailed
    \/ IterationPosted
    \/ IterationException
    \/ InterruptCaught
    \/ InterruptInHandler

SpecMonitor == InitMonitor /\ [][NextMonitor]_vars

\* ---------------------------------------------------------------- active learning
\* time.time() at the first call: far past 0 + al_save_interval.
StartTime == MaxSaveInterval

\* ShowPicture.__init__ (last_al_save_time = 0) with al_save_interval set;
\* saved lists the times at which a frame was written.
al_start(al_save_interval) ==
    [now |-> StartTime, last_al_save_time |-> 0, al_save_interval |-> al_save_interval,
     saved |-> <<>>, ret |-> <<>>]

\* A variant of process_active_learning without the timer test.
process_active_learning_no_timer(a, frame_ok, has_target, write_ok) ==
    IF ~frame_ok THEN [a EXCEPT !.ret = <<FALSE>>]
    ELSE IF ~has_target THEN [a EXCEPT !.ret = <<FALSE>>]
    ELSE IF write_ok
    THEN [a EXCEPT !.last_al_save_time = a.now,
                   !.saved = Append(a.saved, a.now),
                   !.ret = <<TRUE>>]
    ELSE [a EXCEPT !.ret = <<FALSE>>]

\* ShowPicture.process_active_learning(frame, results): frame_ok is "frame and
\* results are not None", has_target "objects_info holds an object with
\* al_conf_low < confidence < al_conf_high", write_ok the result of cv2.imwrite.
process_active_learning(a, frame_ok, has_target, write_ok) ==
    IF ~frame_ok THEN [a EXCEPT !.ret = <<FALSE>>]
    ELSE IF a.now - a.last_al_save_time < a.al_save_interval
    THEN [a EXCEPT !.ret = <<FALSE>>]
    ELSE IF ~has_target THEN [a EXCEPT !.ret = <<FALSE>>]
    ELSE IF write_ok
    THEN [a EXCEPT !.last_al_save_time = a.now,
                   !.saved = Append(a.saved, a.now),
                   !.ret = <<TRUE>>]
    ELSE [a EXCEPT !.ret = <<FALSE>>]

\* What the active-learning saver leaves untouched.
outside_al == <<sweep_vars, calc, iset, threads, session, cam, skip, monitor>>

InitActiveLearning ==
    /\ sweep_idle
    /\ calc = calc_idle
    /\ iset = iset_idle
    /\ threads = threads_idle
    /\ session = <<>>
    /\ cam = <<>>
    /\ skip = <<>>
    /\ monitor = <<>>
    /\ \E al_save_interval \in 1..MaxSaveInterval : al = al_start(al_save_interval)

\* one second passes
Tick ==
    /\ al.now < StartTime + MaxElapsed
    /\ al' = [al EXCEPT !.now = al.now + 1]
    /\ UNCHANGED outside_al

\* a call of process_active_learning
ProcessActiveLearning ==
    /\ \E frame_ok, has_target, write_ok \in BOOLEAN :
          al' = process_active_learning(al, frame_ok, has_target, write_ok)
    /\ UNCHANGED outside_al

NextActiveLearning ==
    \/ Tick
    \/ ProcessActiveLearning

SpecActiveLearning == InitActiveLearning /\ [][NextActiveLearning]_vars

\* ---------------------------------------------------------------- reference
\* Plain rectangle area.
Area(r) == (r[3] - r[1]) * (r[4] - r[2])

\* Largest coordinate of a list of rectangles along each axis.
RECURSIVE MaxOf(_, _)
MaxOf(rects, k) ==
    IF rects = <<>> THEN 0 ELSE Max(Head(rects)[k], MaxOf(Tail(rects), k))

\* The unit cell [i, i+1] x [j, j+1] lies in rectangle r.
CellIn(i, j, r) == r[1] <= i /\ i < r[3] /\ r[2] <= j /\ j < r[4]

\* Area of the set-theoretic union, by counting covered unit cells.
RefUnionArea(rects) ==
    Cardinality({c \in (0..(MaxOf(rects, 3) - 1)) \X (0..(MaxOf(rects, 4) - 1)) :
                    \E k \in 1..Len(rects) : CellIn(c[1], c[2], rects[k])})

\* The closed rectangles a and b share at least one point.
Intersects(a, b) ==
    Max(a[1], b[1]) <= (IF a[3] <= b[3] THEN a[3] ELSE b[3])
        /\ Max(a[2], b[2]) <= (IF a[4] <= b[4] THEN a[4] ELSE b[4])

\* Their intersection (meaningful when Intersects(a, b)).
Intersection(a, b) ==
    <<Max(a[1], b[1]), Max(a[2], b[2]),
      IF a[3] <= b[3] THEN a[3] ELSE b[3], IF a[4] <= b[4] THEN a[4] ELSE b[4]>>

InterArea(a, b) == IF Intersects(a, b) THEN Area(Intersection(a, b)) ELSE 0

Degenerate(r) == r[1] = r[3] \/ r[2] = r[4]

\* All reorderings of a list.
PermutationsOf(s) ==
    {[k \in 1..Len(s) |-> s[f[k]]] : f \in Permutations(1..Len(s))}

Returned == pc = "done"

\* ---------------------------------------------------------------- claims

\* C1: for every list of well-formed rectangles the returned value is the
\* area of the set-theoretic union of the rectangles (cell-counting reference).
C1_UnionAreaExact ==
    Returned => result[1] = RefUnionArea(rectangles)

\* C2: for two rectangles that overlap in a sub-rectangle of positive area the
\* returned value is area(a) + area(b) - area(a /\ b).
C2_TwoOverlapping ==
    (Returned /\ Len(rectangles) = 2
        /\ InterArea(rectangles[1], rectangles[2]) > 0)
    => result[1] = Area(rectangles[1]) + Area(rectangles[2])
                     - InterArea(rectangles[1], rectangles[2])

\* C3: monotonicity: appending any well-formed rectangle r to the input never
\* gives a smaller area than the one returned for the input itself.
C3_Monotone ==
    Returned =>
        \A r \in Rect :
            calculate_union_area_sweepline(Append(rectangles, r)) >= result[1]

\* C4: appending a zero-width or zero-height rectangle d to the input leaves
\* the returned area unchanged.
C4_DegenerateAddsNothing ==
    Returned =>
        \A d \in Rect :
            Degenerate(d) =>
                calculate_union_area_sweepline(Append(rectangles, d)) = result[1]

C6_SingleRectangle ==
    (Returned /\ Len(rectangles) = 1) => result[1] = Area(rectangles[1])

\* C6 witness: a call on one rectangle of positive area has returned.
C6_Witness ==
    Returned /\ Len(rectangles) = 1 /\ Area(rectangles[1]) > 1
        /\ result[1] = Area(rectangles[1])

\* C7: for two rectangles whose intersection is empty or has no area (disjoint
\* in X, disjoint or touching in Y, sharing only an edge) the returned value
\* is area(a) + area(b).
C7_TwoDisjoint ==
    (Returned /\ Len(rectangles) = 2
        /\ InterArea(rectangles[1], rectangles[2]) = 0)
    => result[1] = Area(rectangles[1]) + Area(rectangles[2])

\* C8: for a rectangle given twice the returned value is its area, not twice it.
C8_Duplicate ==
    (Returned /\ Len(rectangles) = 2 /\ rectangles[1] = rectangles[2])
    => result[1] = Area(rectangles[1])

\* C8 witness: a call on [a, a] with a of positive area has returned.
C8_Witness ==
    Returned /\ Len(rectangles) = 2 /\ rectangles[1] = rectangles[2]
        /\ Area(rectangles[1]) > 0 /\ result[1] = Area(rectangles[1])

\* C9: the returned value is the same for every reordering of the input list
\* (the reverse included).
C9_OrderInvariant ==
    Returned =>
        \A p \in PermutationsOf(rectangles) :
            calculate_union_area_sweepline(p) = result[1]

\* C9 witness: a call on three pairwise different rectangles, whose events are
\* not all at different x, has returned a positive area.
C9_Witness ==
    Returned /\ Len(rectangles) = 3 /\ result[1] > 0
        /\ rectangles[1] # rectangles[2] /\ rectangles[1] # rectangles[3]
        /\ rectangles[2] # rectangles[3]
        /\ rectangles[1][3] = rectangles[2][1]
        /\ Cardinality(PermutationsOf(rectangles)) = 6

\* C10: on an empty list the call returns 0 straight from its entry: it never
\* enters the loop, builds no event and consumes none.
C10_EmptyReturnsZero ==
    rectangles = <<>> =>
        /\ pc # "loop"
        /\ events = <<>>
        /\ idx = 0
        /\ (Returned => result = <<0>>)

\* C10 witness: a call on the empty list has returned.
C10_Witness ==
    Returned /\ rectangles = <<>> /\ result = <<0>>

\* ---------------------------------------------------------------- fill claims
\* The centre of rect lies within the closed bounds of shelf sh.
CentroidIn(rect, sh) ==
    /\ 2 * sh[1] <= rect[1] + rect[3] /\ rect[1] + rect[3] <= 2 * sh[3]
    /\ 2 * sh[2] <= rect[2] + rect[4] /\ rect[2] + rect[4] <= 2 * sh[4]

\* The centre of rect lies in the open interior of shelf sh.
CentroidStrictlyIn(rect, sh) ==
    /\ 2 * sh[1] < rect[1] + rect[3] /\ rect[1] + rect[3] < 2 * sh[3]
    /\ 2 * sh[2] < rect[2] + rect[4] /\ rect[2] + rect[4] < 2 * sh[4]

InSomeShelf(rect, shelves) ==
    \E k \in 1..Len(shelves) : CentroidIn(rect, shelves[k])

Reported == calc.pc = "done"

\* The coordinates of the returned per-object list.
RECURSIVE CoordinatesOf(_)
CoordinatesOf(info) ==
    IF info = <<>> THEN <<>>
    ELSE <<Head(info).coordinates>> \o CoordinatesOf(Tail(info))

\* C11: is_rectangle_inside_shelves returns true exactly when the centroid of
\* the rectangle lies within the closed bounds of at least one shelf; an empty
\* shelf list gives false; (40,40,60,60) is inside shelf (0,0,100,100) and
\* outside shelf (60,60,100,100).
C11_CentroidContainment ==
    /\ calc.tested # <<>> =>
          calc.tested[2] = InSomeShelf(calc.tested[1], calc.shelf_coordinates)
    /\ \A r \in FillRect : ~is_rectangle_inside_shelves(r, <<>>)
    /\ is_rectangle_inside_shelves(<<40, 40, 60, 60>>, << <<0, 0, 100, 100>> >>)
    /\ ~is_rectangle_inside_shelves(<<40, 40, 60, 60>>, << <<60, 60, 100, 100>> >>)

\* C11 witness: the test returned true for a rectangle whose centroid lies on
\* the edge of the second shelf and in no shelf's interior.
C11_Witness ==
    /\ calc.tested # <<>>
    /\ calc.tested[2]
    /\ Len(calc.shelf_coordinates) = 2
    /\ ~CentroidIn(calc.tested[1], calc.shelf_coordinates[1])
    /\ ~CentroidStrictlyIn(calc.tested[1], calc.shelf_coordinates[2])

\* C12 as stated: with the filter flag set, for every shelf list (the empty
\* one included) no detection that fails the containment test reaches the
\* sweep or the returned list; with the flag clear no detection is excluded.
C12_FilterEveryShelfList ==
    Reported =>
        IF calc.filter_objects_in_shelves
        THEN /\ \A k \in 1..Len(calc.swept) :
                    InSomeShelf(calc.swept[k], calc.shelf_coordinates)
             /\ \A k \in 1..Len(calc.report[1].objects_info) :
                    InSomeShelf(calc.report[1].objects_info[k].coordinates,
                                calc.shelf_coordinates)
        ELSE /\ calc.swept = calc.boxes
             /\ CoordinatesOf(calc.report[1].objects_info) = calc.boxes

\* C12 amended: with the filter flag set and a non-empty shelf list, no
\* detection that fails the containment test reaches the sweep or the returned
\* list; with the flag clear or the shelf list empty no detection is excluded.
C12_FilterNonEmptyShelfList ==
    Reported =>
        IF calc.filter_objects_in_shelves /\ calc.shelf_coordinates # <<>>
        THEN /\ \A k \in 1..Len(calc.swept) :
                    InSomeShelf(calc.swept[k], calc.shelf_coordinates)
             /\ \A k \in 1..Len(calc.report[1].objects_info) :
                    InSomeShelf(calc.report[1].objects_info[k].coordinates,
                                calc.shelf_coordinates)
        ELSE /\ calc.swept = calc.boxes
             /\ CoordinatesOf(calc.report[1].objects_info) = calc.boxes

\* C12 witness: a filtered call with shelves excluded one of two detections
\* and kept the other.
C12_Witness ==
    /\ Reported
    /\ calc.filter_objects_in_shelves
    /\ calc.shelf_coordinates # <<>>
    /\ Len(calc.boxes) = 2
    /\ Len(calc.swept) = 1
    /\ ~InSomeShelf(calc.boxes[1], calc.shelf_coordinates)
    /\ calc.swept = <<calc.boxes[2]>>

\* The reports for rectangles [(0,0,10,10)] and shelves [(0,0,10,10)], with
\* the filter flag clear and set.
Scenario1 ==
    {make_report(box_step(calc_start(<< <<0, 0, 10, 10>> >>,
                                     << <<0, 0, 10, 10>> >>, f))) : f \in BOOLEAN}

\* C13: fill_percentage is 100 * object_area / shelf_area when shelf_area > 0
\* and exactly 0 otherwise; rectangles [(0,0,10,10)] with shelves [(0,0,10,10)]
\* give object_area 100, shelf_area 100 and fill 100.
C13_FillPercentage ==
    /\ Reported =>
          LET r == calc.report[1]
          IN IF r.shelf_total_area > 0
             THEN /\ r.fill_percentage[2] > 0
                  /\ r.fill_percentage[1] * r.shelf_total_area
                        = 100 * r.total_objects_area * r.fill_percentage[2]
             ELSE r.fill_percentage = <<0, 1>>
    /\ \A r \in Scenario1 : /\ r.total_objects_area = 100
                            /\ r.shelf_total_area = 100
                            /\ r.fill_percentage = <<100, 1>>

\* C13 witness: a report with positive shelf area and a percentage that is
\* positive and not a whole number.
C13_Witness ==
    /\ Reported
    /\ calc.report[1].shelf_total_area > 0
    /\ calc.report[1].total_objects_area > 0
    /\ calc.report[1].fill_percentage[2] > 1

\* C14: the reported fill_percentage is never negative, and neither is the
\* union area it is computed from.
C14_FillNonNegative ==
    Reported =>
        /\ calc.report[1].fill_percentage[1] >= 0
        /\ calc.report[1].fill_percentage[2] > 0
        /\ calc.report[1].total_objects_area >= 0

\* C14 witness: a report with a positive percentage.
C14_Witness ==
    /\ Reported
    /\ calc.report[1].fill_percentage[1] > 0
    /\ calc.report[1].total_objects_area > 0

\* Sum of the plain areas of a list of rectangles.
PlainAreaSum(rects) ==
    LET f[k \in 0..Len(rects)] == IF k = 0 THEN 0 ELSE f[k - 1] + Area(rects[k])
    IN f[Len(rects)]

\* C15: shelf_area is the plain sum of the shelf areas, every occurrence
\* counted, and only the kept detections go through the sweep.
C15_ShelfAreaPlainSum ==
    Reported =>
        /\ calc.report[1].shelf_total_area = PlainAreaSum(calc.shelf_coordinates)
        /\ calc.swept = CoordinatesOf(calc.report[1].objects_info)
        /\ \A k \in 1..Len(calc.swept) :
              \E j \in 1..Len(calc.boxes) : calc.swept[k] = calc.boxes[j]

\* C15 witness: a report on two overlapping shelves, whose shelf_area exceeds
\* the area of their union, and where no detection was swept.
C15_Witness ==
    /\ Reported
    /\ Len(calc.shelf_coordinates) = 2
    /\ calc.report[1].shelf_total_area > RefUnionArea(calc.shelf_coordinates)
    /\ calc.swept = <<>>

\* s is t with some members left out, the order kept.
RECURSIVE IsSubsequence(_, _)
IsSubsequence(s, t) ==
    IF s = <<>> THEN TRUE
    ELSE IF t = <<>> THEN FALSE
    ELSE IF Head(s) = Head(t) /\ IsSubsequence(Tail(s), Tail(t)) THEN TRUE
    ELSE IsSubsequence(s, Tail(t))

\* C16: in every report num_objects is the number of kept detections and the
\* length of objects_info; the entries are in detection order with ids 1..n;
\* each entry's area is the plain area of its own rectangle; and
\* total_objects_area is the sweep's value on the kept rectangles.
C16_ReportShape ==
    Reported =>
        LET r == calc.report[1]
        IN /\ r.num_objects = Len(calc.objects_rectangles)
           /\ r.num_objects = Len(r.objects_info)
           /\ CoordinatesOf(r.objects_info) = calc.objects_rectangles
           /\ IsSubsequence(calc.objects_rectangles, calc.boxes)
           /\ \A k \in 1..Len(r.objects_info) :
                 /\ r.objects_info[k].id = k
                 /\ r.objects_info[k].area = Area(r.objects_info[k].coordinates)
           /\ r.total_objects_area
                 = calculate_union_area_sweepline(CoordinatesOf(r.objects_info))

\* C16 witness: the first detection was filtered out, the second kept with
\* id 1, and the union area is below the sum of the entries' areas.
C16_Witness ==
    /\ Reported
    /\ Len(calc.boxes) = 2
    /\ calc.report[1].num_objects = 1
    /\ calc.report[1].objects_info[1].coordinates = calc.boxes[2]
    /\ calc.boxes[1] # calc.boxes[2]
    /\ calc.report[1].objects_info[1].id = 1
    /\ calc.report[1].objects_info[1].area > 0

\* ---------------------------------------------------------------- interval claims
\* The unit cells [k, k+1] covered by an interval list.
CellsOf(s) ==
    {k \in 0..(MaxInterval - 1) : \E j \in 1..Len(s) : s[j][1] <= k /\ k + 1 <= s[j][2]}

\* The integer points covered by an interval list (members are closed).
PointsOf(s) ==
    {p \in 0..MaxInterval : \E j \in 1..Len(s) : s[j][1] <= p /\ p <= s[j][2]}

IsMember(s, v) == \E j \in 1..Len(s) : s[j] = v

SortedByLo(s) == \A j \in 1..(Len(s) - 1) : s[j][1] <= s[j + 1][1]

Normalized(s) == SortedByLo(s) /\ \A j \in 1..(Len(s) - 1) : s[j + 1][1] > s[j][2]

Inserted == iset.op # <<>> /\ iset.op[1] = "insert"

Removed == iset.op # <<>> /\ iset.op[1] = "remove"

\* C17: after every insert and every remove, for any sequence of inserts and
\* removes of well-formed intervals, the interval list is sorted by lower
\* bound and for consecutive members next.lo > prev.hi (no overlap, no touch).
C17_SortedDisjointNonTouching == Normalized(iset.intervals)

\* A remove has just cut a member in two and both remainders are members.
C17_Witness ==
    /\ Removed
    /\ Len(iset.before) = 1
    /\ Len(iset.intervals) = 2

\* C18: remove_interval(S, r) on a normalized S and a well-formed r removes
\* exactly the Y-range of r: the covered length afterwards is that of
\* cover(S) minus r, no remaining member reaches into the interior of r,
\* every part of a member outside r is kept, a member strictly containing r
\* is split into a left and a right remainder, and no member falls through
\* the case analysis.
C18_RemoveExactRange ==
    (Removed /\ Normalized(iset.before)) =>
        LET r == iset.op[2]
            S == iset.before
            Inside == {k \in 0..(MaxInterval - 1) : r[1] <= k /\ k + 1 <= r[2]}
        IN /\ CellsOf(iset.intervals) = CellsOf(S) \ Inside
           /\ sum_lengths(iset.intervals) = Cardinality(CellsOf(S) \ Inside)
           /\ \A j \in 1..Len(iset.intervals) :
                 ~(/\ r[1] < r[2]
                   /\ iset.intervals[j][1] < r[2]
                   /\ iset.intervals[j][2] > r[1])
           /\ \A p \in PointsOf(S) :
                 (p < r[1] \/ p > r[2]) => p \in PointsOf(iset.intervals)
           /\ PointsOf(iset.intervals) \subseteq PointsOf(S)
           /\ \A j \in 1..Len(S) :
                 /\ remove_branch(S[j][1], S[j][2], r[1], r[2]) # "none"
                 /\ (S[j][1] < r[1] /\ S[j][2] > r[2] /\ r[1] < r[2]) =>
                       /\ IsMember(iset.intervals, <<S[j][1], r[1]>>)
                       /\ IsMember(iset.intervals, <<r[2], S[j][2]>>)

\* A remove of a positive-length range strictly inside a member, next to
\* another member that it leaves alone.
C18_Witness ==
    /\ Removed
    /\ Len(iset.before) = 2
    /\ iset.op[2][1] < iset.op[2][2]
    /\ \E j \in 1..2 :
          iset.before[j][1] < iset.op[2][1] /\ iset.before[j][2] > iset.op[2][2]
    /\ Len(iset.intervals) = 3

\* C19: inserting an interval i into a normalized S yields a list whose
\* covered region is exactly cover(S) union i; a member that i overlaps or
\* merely touches ends up in one member together with i; the total covered
\* length never decreases.
C19_InsertExactUnion ==
    (Inserted /\ Normalized(iset.before)) =>
        LET i == iset.op[2]
            S == iset.before
            both == Append(S, i)
        IN /\ CellsOf(iset.intervals) = CellsOf(both)
           /\ PointsOf(iset.intervals) = PointsOf(both)
           /\ sum_lengths(iset.intervals) = Cardinality(CellsOf(both))
           /\ sum_lengths(iset.intervals) >= sum_lengths(S)
           /\ \A j \in 1..Len(S) :
                 (i[1] <= S[j][2] /\ S[j][1] <= i[2]) =>
                     \E k \in 1..Len(iset.intervals) :
                         /\ iset.intervals[k][1] <= S[j][1]
                         /\ iset.intervals[k][1] <= i[1]
                         /\ iset.intervals[k][2] >= S[j][2]
                         /\ iset.intervals[k][2] >= i[2]
           /\ Normalized(iset.intervals)

\* An insert whose lower bound equals a member's upper bound (touching only),
\* which bridges two members into one.
C19_Witness ==
    /\ Inserted
    /\ Len(iset.before) = 2
    /\ iset.op[2][1] = iset.before[1][2]
    /\ iset.op[2][2] = iset.before[2][1]
    /\ iset.op[2][1] < iset.op[2][2]
    /\ Len(iset.intervals) = 1

\* ---------------------------------------------------------------- concurrency claim
\* The loop variables a sweep run alone has after its first n events.
AloneAfter(rects, n) ==
    run_loop(loop_start, SubSeq(sort_events(make_events(rects)), 1, n))

\* C20: sweeps running concurrently in separate threads on their own inputs,
\* their steps interleaved arbitrarily and without synchronization, each go
\* through the loop states of the same sweep run alone and each return the
\* result of the sweep run alone.
C20_ConcurrentSameAsAlone ==
    \A t \in DOMAIN threads :
        /\ threads[t].pc = "loop" =>
              /\ threads[t].events = sort_events(make_events(threads[t].rectangles))
              /\ [active_intervals |-> threads[t].active_intervals,
                  total_area |-> threads[t].total_area,
                  prev_x |-> threads[t].prev_x]
                    = AloneAfter(threads[t].rectangles, threads[t].idx)
        /\ threads[t].pc = "done" =>
              threads[t].result =
                  <<calculate_union_area_sweepline(threads[t].rectangles)>>

\* One thread has returned a positive area while another, on a different
\* list, is in the middle of its loop with a non-empty active list.
C20_Witness ==
    /\ threads # threads_idle
    /\ \E t, u \in DOMAIN threads :
          /\ t # u
          /\ threads[t].rectangles # threads[u].rectangles
          /\ threads[t].pc = "done"
          /\ threads[t].result[1] > 0
          /\ threads[u].pc = "loop"
          /\ threads[u].idx > 0
          /\ threads[u].idx < Len(threads[u].events)
          /\ threads[u].active_intervals # <<>>
          /\ threads[u].active_intervals # threads[t].active_intervals

\* ---------------------------------------------------------------- sweep-invariant claims
\* The unit cells [j, j+1] of the Y axis covered by an interval list.
YCells(s) ==
    {j \in 0..(MaxY - 1) : \E m \in 1..Len(s) : s[m][1] <= j /\ j + 1 <= s[m][2]}

\* The integer points of the Y axis covered by an interval list.
YPoints(s) ==
    {p \in 0..MaxY : \E m \in 1..Len(s) : s[m][1] <= p /\ p <= s[m][2]}

\* The Y-ranges of the rectangles with index in K, as an interval list.
YRanges(K) ==
    LET pick == CHOOSE f \in [1..Cardinality(K) -> K] :
                    \A a, b \in 1..Cardinality(K) : a # b => f[a] # f[b]
    IN [m \in 1..Cardinality(K) |-> <<rectangles[pick[m]][2], rectangles[pick[m]][4]>>]

\* How many of the first n events equal e.
CountIn(n, e) == Cardinality({q \in 1..n : events[q] = e})

\* The rectangles entered and not yet left after the first n events.
ActiveRectangles(n) ==
    {k \in 1..Len(rectangles) :
        CountIn(n, <<rectangles[k][1], 1, rectangles[k][2], rectangles[k][4]>>)
            > CountIn(n, <<rectangles[k][3], -1, rectangles[k][2], rectangles[k][4]>>)}

\* The sweep stands in a gap: every event at prev_x is applied and the next
\* event lies at a larger x.
InGap ==
    /\ pc = "loop"
    /\ idx > 0
    /\ idx < Len(events)
    /\ events[idx + 1][1] > prev_x[1]

\* The rectangles whose X-span covers the gap after prev_x.
SpanningRectangles ==
    {k \in 1..Len(rectangles) :
        rectangles[k][1] <= prev_x[1] /\ rectangles[k][3] >= events[idx + 1][1]}

PositiveWidths == \A k \in 1..Len(rectangles) : rectangles[k][1] < rectangles[k][3]

\* C22: strictly between two consecutive distinct event coordinates the
\* active interval list covers exactly the union of the Y-ranges of the
\* rectangles whose X-span covers the gap; a Y-range that a remaining active
\* rectangle still covers stays in the list when another rectangle leaves.
\* Stated for rectangles of positive width, where Enter precedes Leave.
C22_SweepInvariant ==
    (InGap /\ PositiveWidths) =>
        YCells(active_intervals) = YCells(YRanges(SpanningRectangles))

\* C23: events are consumed in non-decreasing x order; the area added when an
\* event at x is consumed is (covered length of the list before any event at
\* x) * (x - prev_x) when x > prev_x, and nothing when x equals prev_x or no
\* event came before.
C23_AreaOnlyBetweenDistinctX ==
    [][(pc = "loop" /\ idx' = idx + 1) =>
          /\ prev_x # <<>> => events[idx + 1][1] >= prev_x[1]
          /\ prev_x' = <<events[idx + 1][1]>>
          /\ total_area' - total_area =
                IF prev_x # <<>> /\ events[idx + 1][1] > prev_x[1]
                THEN Cardinality(YCells(active_intervals))
                        * (events[idx + 1][1] - prev_x[1])
                ELSE 0]_vars

\* Two events at the same x have just been consumed after area was added for
\* an earlier gap, and the list is not empty.
C23_Witness ==
    /\ pc = "loop"
    /\ idx >= 3
    /\ events[idx][1] = events[idx - 1][1]
    /\ events[idx - 1][1] > events[1][1]
    /\ total_area > 0
    /\ active_intervals # <<>>

\* C24: for rectangles of strictly positive width the active interval list
\* covers, after every event, only cells and points of the Y-ranges of the
\* rectangles entered and not yet left, and the returned area is at most the
\* area of the union.
C24_NeverOverCounts ==
    PositiveWidths =>
        /\ pc = "loop" =>
              /\ YCells(active_intervals) \subseteq YCells(YRanges(ActiveRectangles(idx)))
              /\ YPoints(active_intervals) \subseteq YPoints(YRanges(ActiveRectangles(idx)))
        /\ Returned => result[1] <= RefUnionArea(rectangles)

\* A sweep of overlapping positive-width rectangles has returned less than
\* the area of their union.
C24_Witness ==
    /\ Returned
    /\ Len(rectangles) >= 2
    /\ PositiveWidths
    /\ result[1] > 0
    /\ result[1] < RefUnionArea(rectangles)

\* C25: after the last event of a sweep the active interval list is empty,
\* for every list of well-formed rectangles.
C25_EmptyAfterLastEvent ==
    (pc = "loop" /\ idx = Len(events)) => active_intervals = <<>>

\* ---------------------------------------------------------------- camera claims
\* C26: read_frame returns a frame only when the capture is open and the
\* read succeeded; when the capture is not open or the read fails it
\* reconnects (the previous capture is released before the new one is
\* opened, so at most one opened capture exists) and returns None; a call
\* made while the stream is available leaves an opened, live capture, and a
\* call on such a capture while the stream is available returns a frame, so
\* after any failures the second call with the stream available returns a frame.
C26_ReadFrameReconnects ==
    [][ReadFrame =>
          /\ cam'.ret = <<"frame">> <=> (cam.cap.opened /\ read_ok(cam))
          /\ cam'.ret = <<"frame">> => (cam'.connects = 0 /\ cam'.cap = cam.cap)
          /\ cam'.ret # <<"frame">> =>
                /\ cam'.ret = <<"None">>
                /\ cam'.connects = 1
                /\ cam'.cap = new_capture(cam.stream)
          /\ cam'.open_captures = (IF cam'.cap.opened THEN 1 ELSE 0)
          /\ cam.stream => (cam'.cap.opened /\ cam'.cap.alive)
          /\ (cam.stream /\ cam.cap.opened /\ cam.cap.alive) => cam'.ret = <<"frame">>]_vars

\* A read on an opened capture has failed, the call has reconnected and
\* returned None, and the new capture is opened on the stream that came back.
C26_Witness ==
    /\ cam # <<>>
    /\ cam.last.op = "read_frame"
    /\ cam.last.open
    /\ ~cam.last.ok
    /\ cam.ret = <<"None">>
    /\ cam.connects = 1
    /\ cam.cap.opened
    /\ cam.cap.alive

\* C27: read_fresh_frame makes at most max_attempts attempts and then
\* returns; it returns a frame only from an attempt whose read succeeded and
\* whose frame passed the broken-frame check; every failed attempt that had an
\* open capture reconnects; it returns None only after max_attempts failed
\* attempts.
C27_FreshFrameBounded ==
    /\ [](cam.pc = "fresh" => cam.attempt <= cam.max_attempts)
    /\ [](cam.last.op = "attempt" =>
             /\ cam.ret = <<"frame">> <=> (cam.last.ok /\ cam.last.passed)
             /\ cam.ret = <<"frame">> <=> cam.pc = "idle"
             /\ (cam.last.open /\ cam.pc = "fresh") => cam.connects >= 1
             /\ (~cam.last.open) => (cam.pc = "fresh" /\ ~cam.cap.opened)
             /\ cam.open_captures = (IF cam.cap.opened THEN 1 ELSE 0))
    /\ [](cam.last.op = "give_up" =>
             (cam.ret = <<"None">> /\ cam.attempt = cam.max_attempts))
    /\ [][FreshAttempt => (cam'.pc = "idle" \/ cam'.attempt = cam.attempt + 1)]_vars
    /\ (cam.pc = "fresh" ~> cam.pc = "idle")

\* The last of max_attempts = MaxAttempts attempts read a broken frame on an open
\* capture and reconnected; the call is about to return None.
C27_Witness ==
    /\ cam # <<>>
    /\ cam.pc = "fresh"
    /\ cam.max_attempts = MaxAttempts
    /\ cam.attempt = MaxAttempts
    /\ cam.last.op = "attempt"
    /\ cam.last.open
    /\ cam.last.ok
    /\ ~cam.last.passed
    /\ cam.connects = 1

\* ---------------------------------------------------------------- frame-skipping claim
\* What became of the frames that were not None, in order.
FramesRead == SelectSeq(skip.log, LAMBDA e : e # "none")

ProcessedAt == {i \in 1..Len(FramesRead) : FramesRead[i] = "processed"}

\* C28: with skip_frames = k > 0 the first non-None frame is processed and
\* after a processed frame exactly the next k non-None frames are skipped and
\* the one after them is processed; None frames are neither processed nor
\* counted; with k = 0 every non-None frame is processed.
C28_EveryKPlusOneth ==
    LET k == skip.skip_frames
        n == Len(FramesRead)
    IN /\ skip.frame_count = n
       /\ k = 0 => ProcessedAt = 1..n
       /\ k > 0 =>
             /\ n >= 1 => 1 \in ProcessedAt
             /\ \A i \in ProcessedAt :
                   /\ \A j \in (i + 1)..(i + k) : j \notin ProcessedAt
                   /\ i + k + 1 <= n => (i + k + 1) \in ProcessedAt

\* With k = 2, three frames were processed with None frames read in between.
C28_Witness ==
    /\ skip # <<>>
    /\ skip.skip_frames = 2
    /\ Cardinality(ProcessedAt) = 3
    /\ Len(skip.log) > Len(FramesRead)
    /\ skip.log[2] = "none"

\* ---------------------------------------------------------------- monitoring claim
Failures == {"no frame", "encode failed", "non-200", "request error", "exception"}

\* C29: no failure inside an iteration of start_in_store ends the loop: after
\* an iteration with no frame, a failed encoding, a non-200 response, a
\* request error or another exception the loop is still running, nothing
\* more was sent and time_interval was waited; only KeyboardInterrupt leaves
\* the loop, and camera.release() has been called whenever the loop was left
\* (and not before).
C29_LoopSurvivesFailures ==
    /\ [](monitor.last \in Failures => (monitor.pc = "loop" /\ ~monitor.released))
    /\ [](monitor.pc = "left" <=> monitor.released)
    /\ [](monitor.pc = "left" => monitor.last = "KeyboardInterrupt")
    /\ [](monitor.pc = "loop" => monitor.waits = monitor.iterations)
    /\ [][(monitor'.iterations = monitor.iterations + 1
              /\ monitor'.last \in {"no frame", "encode failed", "exception"})
            => (monitor'.posts = monitor.posts /\ monitor'.waits = monitor.waits + 1
                   /\ monitor'.pc = "loop")]_vars
    /\ [][(monitor'.iterations = monitor.iterations + 1
              /\ monitor'.last \in {"non-200", "request error"})
            => (monitor'.posts = monitor.posts + 1 /\ monitor'.waits = monitor.waits + 1
                   /\ monitor'.pc = "loop")]_vars

\* After a run of failures of several kinds the loop is still running and
\* has then sent data successfully.
C29_Witness ==
    /\ monitor # <<>>
    /\ monitor.pc = "loop"
    /\ monitor.iterations >= 4
    /\ monitor.posts = 1
    /\ monitor.last = "200"
    /\ monitor.waits = monitor.iterations

\* ---------------------------------------------------------------- active-learning claim
\* C30: frames are saved no more often than once per al_save_interval
\* seconds: two saves are at least al_save_interval apart; a call made less
\* than al_save_interval after the last successful save returns False and
\* saves nothing; last_al_save_time is the time of the last written frame
\* (0 before any) and changes only in a call that wrote a frame and
\* returned True.
C30_SaveRateLimited ==
    /\ [](\A i \in 1..(Len(al.saved) - 1) :
             al.saved[i + 1] - al.saved[i] >= al.al_save_interval)
    /\ [](al.last_al_save_time =
             (IF al.saved = <<>> THEN 0 ELSE al.saved[Len(al.saved)]))
    /\ [][ProcessActiveLearning =>
             /\ al.now - al.last_al_save_time < al.al_save_interval =>
                   (al'.ret = <<FALSE>> /\ al'.saved = al.saved)
             /\ al'.last_al_save_time # al.last_al_save_time =>
                   (al'.ret = <<TRUE>> /\ al'.saved = Append(al.saved, al.now))
             /\ al'.ret = <<FALSE>> =>
                   (al'.saved = al.saved /\ al'.last_al_save_time = al.last_al_save_time)]_vars

\* Two frames were saved, and a later call, too early after the second
\* save, has returned False.
C30_Witness ==
    /\ al # <<>>
    /\ Len(al.saved) = 2
    /\ al.ret = <<FALSE>>
    /\ al.now > al.last_al_save_time
    /\ al.now - al.last_al_save_time < al.al_save_interval

\* ---------------------------------------------------------------- statelessness claim
\* C21: the engine keeps no state between calls: the latest call returns what
\* the first call of the series returned whenever both have the same kind and
\* equal arguments, whatever calls were made in between; a union_area call
\* returns the value of the function on its argument alone; and the argument
\* sequences are the same after the call as before it.
C21_NoStateBetweenCalls ==
    session.latest # <<>> =>
        LET latest == session.latest[1]
            first == session.first[1]
        IN /\ (first.kind = latest.kind /\ first.args = latest.args) =>
                 latest.result = first.result
           /\ latest.kind = "union_area" =>
                 latest.result = calculate_union_area_sweepline(latest.args[1])
           /\ latest.kind = "fill" =>
                 latest.result =
                     make_report(run_boxes(calc_start(latest.args[1], latest.args[2],
                                                      latest.args[3])))
           /\ latest.args_after = latest.args

\* The last call of a series has repeated the first union_area call, on a
\* list of two rectangles, and returned the same positive area.
C21_Witness ==
    /\ session # <<>>
    /\ session.calls = MaxCalls
    /\ session.first[1].kind = "union_area"
    /\ session.latest[1].kind = "union_area"
    /\ Len(session.first[1].args[1]) = 2
    /\ session.latest[1] = session.first[1]
    /\ session.first[1].result > 0

====
